---- MODULE Spec2Model ----
(***************************************************************************)
(* A model of the Buffers namespace of src/Buffers.cc: the memory type     *)
(* selector getMemoryType, the lifetime of Buffer objects (construction,   *)
(* move construction, move assignment, destruction), the host upload       *)
(* loadData and the device-to-device transfer copyDataFrom, together with  *)
(* the parts of the allocator, the command pool and the transfer queue     *)
(* that these operations drive.                                            *)
(***************************************************************************)
EXTENDS Integers, Sequences, FiniteSets, TLC

(***************************************************************************)
(* Bounds of the model.                                                    *)
(***************************************************************************)
\* Buffer objects (storage locations) that may exist at the same time.
MaxObjs == 2
\* (buffer, allocation) pairs the allocator hands out over a run.
MaxPairs == 2
\* Largest bufferSize, in bytes, passed to a constructor.
MaxSize == 2
\* Command buffers the transfer command pool can have outstanding.
MaxCmdBufs == 2
\* Longest list of memory types of a physical device.
MaxTypes == 2
\* Number of property flag bits of a memory type.
FlagBits == 2
\* Most commands recorded into one command buffer of the caller.
MaxCmds == 2
\* Number of low bits a bufferSize kept at full width may have set.
MaxSizeBits == 3

\* Width of uint32_t.
UInt32Bits == 32
\* Width of size_t.
SizeTBits == 64

(***************************************************************************)
(* Values.                                                                 *)
(***************************************************************************)
NullPtr == 0
VK_NULL_HANDLE == 0
VK_SUCCESS == "VK_SUCCESS"
VK_ERROR == "VK_ERROR"
VkResults == {VK_SUCCESS, VK_ERROR}

Objs == 1..MaxObjs
Pairs == 1..MaxPairs
Handles == 0..MaxPairs
Sizes == 1..MaxSize
Byte == {0, 1}
Devices == {1, 2}
Allocators == {1}
TheAllocator == CHOOSE a \in Allocators : TRUE
QueueFamilies == {0, 1, 2}
CmdBufs == 1..MaxCmdBufs

Bytes(n) == [1..n -> Byte]
DataSeqs == UNION {Bytes(n) : n \in 0..MaxSize}



Min(S) == CHOOSE x \in S : \A y \in S : x <= y

\* An unsigned 32-bit integer is the set of the positions of its one bits
\* (0 = least significant): a & b is the intersection, and 0 the empty set.
UInt32(S) == S \cap (0..(UInt32Bits - 1))
BitAnd(a, b) == a \cap b
\* a << 1 as a uint32_t: the bit shifted out of position 31 is lost.
ShiftLeft1(a) == UInt32({b + 1 : b \in a})

VARIABLES
  objs,      \* the Buffer objects: their fields, and whether their lifetime has begun
  nextPair,  \* the number of (buffer, allocation) pairs the allocator has created
  live,      \* the pairs created and not yet destroyed
  destroys,  \* per (buffer, allocation) argument pair, the vmaDestroyBuffer calls made
  mem,       \* the bytes of each live allocation
  mapCount,  \* per allocation, maps not yet unmapped
  pool,      \* the command buffers allocated from the transfer pool and not freed
  cmdbuf,    \* per command buffer, its state and the commands recorded in it
  pending,   \* the command buffers submitted to the transfer queue and not yet executed
  call,      \* the frame of the copyDataFrom call in progress; pc = "idle" when none
  last,      \* what the last completed operation did and returned
  mt,        \* the last getMemoryType call: its arguments and its result
  sz         \* a Buffer whose size is kept at its full width, and what was read of it

vars == <<objs, nextPair, live, destroys, mem, mapCount, pool, cmdbuf, pending, call, last, mt, sz>>

bufVars == <<objs, nextPair, live, destroys, mem, mapCount, pool, cmdbuf, pending, call, last>>

(***************************************************************************)
(* Memory Type Selector.                                                   *)
(***************************************************************************)
FlagSets == SUBSET (0..(FlagBits - 1))
TypeLists == UNION {[1..n -> FlagSets] : n \in 0..MaxTypes}
\* Filters with bits at and beyond the end of the longest list, the top bit included.
Filters == SUBSET ((0..MaxTypes) \cup {UInt32Bits - 1})

\* The loop of getMemoryType from index i on, mask being 1 << i as a uint32_t.
RECURSIVE getMemoryTypeLoop(_, _, _, _, _)
getMemoryTypeLoop(memoryTypes, properties, filter, i, mask) ==
  IF ~(i < Len(memoryTypes))
  THEN [threw |-> TRUE, value |-> 0]
  ELSE IF BitAnd(filter, mask) # {}
          /\ BitAnd(memoryTypes[i + 1], properties) = properties
       THEN [threw |-> FALSE, value |-> i]
       ELSE getMemoryTypeLoop(memoryTypes, properties, filter, i + 1, ShiftLeft1(mask))

\* A mutant of getMemoryType: the mask starts at bit 1.
getMemoryTypeMaskOff(memoryTypes, properties, filter) ==
  getMemoryTypeLoop(memoryTypes, properties, filter, 0, {1})

getMemoryType(memoryTypes, properties, filter) ==
  getMemoryTypeLoop(memoryTypes, properties, filter, 0, {0})

NoMemTypeCall ==
  [called |-> FALSE, memoryTypes |-> <<>>, properties |-> {}, filter |-> {},
   result |-> [threw |-> FALSE, value |-> 0]]

\* getMemoryType(physicalDev, properties, filter) on the arguments drawn at the start.
GetMemoryTypeCall ==
  /\ ~mt.called
  /\ mt' = [mt EXCEPT !.called = TRUE,
                      !.result = getMemoryType(mt.memoryTypes, mt.properties, mt.filter)]
  /\ UNCHANGED <<bufVars, sz>>

(***************************************************************************)
(* Buffer objects.                                                         *)
(***************************************************************************)
\* A storage location holding no Buffer object.
NoObj ==
  [alive |-> FALSE, logicalDev |-> NullPtr, allocator |-> NullPtr, size |-> 0,
   vertexBuffer |-> VK_NULL_HANDLE, allocation |-> VK_NULL_HANDLE]

\* A default-constructed Buffer: no device, no allocator, no handles.
DefaultBuffer == [NoObj EXCEPT !.alive = TRUE]

nullopt == [has_value |-> FALSE, value |-> {}]
OptUint32Sets ==
  {nullopt} \cup {[has_value |-> TRUE, value |-> q] : q \in SUBSET QueueFamilies}

NoCall == [op |-> "none", calls |-> <<>>]
NoCmdBuf == [state |-> "free", level |-> "none", flags |-> "none", cmds |-> <<>>]
Idle == [pc |-> "idle"]
Crashed == [pc |-> "crashed"]

\* CHECK_VK_SUCCESS(result, message) raises exactly when result is not VK_SUCCESS.
CHECK_VK_SUCCESS(result) == result # VK_SUCCESS

isInitialized(buf) == buf.logicalDev # NullPtr

\* std::vector::assign from a std::set: the elements in ascending order.
RECURSIVE SetToVec(_)
SetToVec(S) ==
  IF S = {} THEN <<>> ELSE LET m == Min(S) IN <<m>> \o SetToVec(S \ {m})

createVertexBuffer(size) ==
  [size |-> size, sharingMode |-> "VK_SHARING_MODE_EXCLUSIVE",
   queueFamilyIndexCount |-> 0, pQueueFamilyIndices |-> <<>>]

createVertexBufferConcurrent(size, queues) ==
  [size |-> size, sharingMode |-> "VK_SHARING_MODE_CONCURRENT",
   queueFamilyIndexCount |-> Cardinality(queues),
   pQueueFamilyIndices |-> SetToVec(queues)]

\* A mutant of BufferCreateInfo: a set of one queue family already shares concurrently.
BufferCreateInfoAtLeastOne(size, usedQueues) ==
  IF usedQueues.has_value /\ Cardinality(usedQueues.value) >= 1
  THEN createVertexBufferConcurrent(size, usedQueues.value)
  ELSE createVertexBuffer(size)

\* The create info of the one vmaCreateBuffer call the constructor makes.
BufferCreateInfo(size, usedQueues) ==
  IF usedQueues.has_value /\ Cardinality(usedQueues.value) > 1
  THEN createVertexBufferConcurrent(size, usedQueues.value)
  ELSE createVertexBuffer(size)

\* A mutant of ConstructedObjs: the result of vmaCreateBuffer is not checked.
ConstructedObjsUnchecked(os, o, dev, bufferSize, handle, result) ==
  [os EXCEPT ![o] = [alive |-> TRUE, logicalDev |-> dev, allocator |-> TheAllocator,
                     size |-> bufferSize, vertexBuffer |-> handle,
                     allocation |-> handle]]

\* The objects after the constructor ran for location o: none where it raised.
ConstructedObjs(os, o, dev, bufferSize, handle, result) ==
  IF CHECK_VK_SUCCESS(result) THEN os
  ELSE [os EXCEPT ![o] = [alive |-> TRUE, logicalDev |-> dev,
                          allocator |-> TheAllocator, size |-> bufferSize,
                          vertexBuffer |-> handle, allocation |-> handle]]

\* Buffer::Buffer(dev, allocator, physicalDev, bufferSize, ..., usedQueues), the
\* allocator answering result; a fresh allocation holds arbitrary bytes.
BufferCtor(o, dev, bufferSize, usedQueues, result, bytes) ==
  /\ call.pc = "idle"
  /\ ~objs[o].alive
  /\ result = VK_SUCCESS => nextPair < MaxPairs
  /\ LET p == nextPair + 1
         created == result = VK_SUCCESS
         handle == IF created THEN p ELSE VK_NULL_HANDLE
     IN /\ nextPair' = IF created THEN p ELSE nextPair
        /\ live' = IF created THEN live \cup {p} ELSE live
        /\ mem' = IF created THEN [mem EXCEPT ![p] = bytes] ELSE mem
        /\ objs' = ConstructedObjs(objs, o, dev, bufferSize, handle, result)
        /\ last' = [op |-> "Buffer", obj |-> o, dev |-> dev, bufferSize |-> bufferSize,
                    usedQueues |-> usedQueues, handle |-> handle, liveBefore |-> live,
                    threw |-> CHECK_VK_SUCCESS(result),
                    calls |-> <<[fn |-> "vmaCreateBuffer",
                                 createInfo |-> BufferCreateInfo(bufferSize, usedQueues),
                                 result |-> result]>>]
  /\ UNCHANGED <<destroys, mapCount, pool, cmdbuf, pending, call, mt, sz>>

\* Buffer::Buffer(), as UniformObjBuffer() = default uses it.
BufferDefaultCtor(o) ==
  /\ call.pc = "idle"
  /\ ~objs[o].alive
  /\ objs' = [objs EXCEPT ![o] = DefaultBuffer]
  /\ last' = [op |-> "Buffer()", obj |-> o, calls |-> <<>>]
  /\ UNCHANGED <<nextPair, live, destroys, mem, mapCount, pool, cmdbuf, pending, call, mt, sz>>

\* A mutant of MoveCtorObjs: the source keeps its device reference.
MoveCtorObjsKeepDev(os, d, s) ==
  [os EXCEPT ![d] = [alive |-> TRUE, logicalDev |-> os[s].logicalDev,
                     allocator |-> os[s].allocator, size |-> os[s].size,
                     vertexBuffer |-> os[s].vertexBuffer,
                     allocation |-> os[s].allocation]]

\* The member initialisers of Buffer(Buffer&& buf), then buf.logicalDev = nullptr.
MoveCtorObjs(os, d, s) ==
  LET moved == [os EXCEPT ![d] = [alive |-> TRUE, logicalDev |-> os[s].logicalDev,
                                  allocator |-> os[s].allocator, size |-> os[s].size,
                                  vertexBuffer |-> os[s].vertexBuffer,
                                  allocation |-> os[s].allocation]]
  IN [moved EXCEPT ![s].logicalDev = NullPtr]

BufferMoveCtor(d, s) ==
  /\ call.pc = "idle"
  /\ ~objs[d].alive
  /\ objs[s].alive
  /\ objs' = MoveCtorObjs(objs, d, s)
  /\ last' = [op |-> "Buffer(Buffer&&)", dst |-> d, src |-> s, srcBefore |-> objs[s],
              calls |-> <<>>]
  /\ UNCHANGED <<nextPair, live, destroys, mem, mapCount, pool, cmdbuf, pending, call, mt, sz>>

\* A mutant of MoveAssignObjs: the allocation handle is not taken over.
MoveAssignObjsNoAllocation(os, d, s) ==
  LET moved == [os EXCEPT ![d].logicalDev = os[s].logicalDev,
                          ![d].allocator = os[s].allocator,
                          ![d].size = os[s].size,
                          ![d].vertexBuffer = os[s].vertexBuffer]
  IN [moved EXCEPT ![s].logicalDev = NullPtr]

\* A mutant of MoveAssignObjs: the source is left with size zero.
MoveAssignObjsClearsSize(os, d, s) ==
  LET moved == [os EXCEPT ![d].logicalDev = os[s].logicalDev,
                          ![d].allocator = os[s].allocator,
                          ![d].size = os[s].size,
                          ![d].vertexBuffer = os[s].vertexBuffer,
                          ![d].allocation = os[s].allocation]
  IN [moved EXCEPT ![s].logicalDev = NullPtr, ![s].size = 0]

\* The assignments of operator=(Buffer&& buf) in order, then buf.logicalDev = nullptr;
\* d = s is the self assignment.
MoveAssignObjs(os, d, s) ==
  LET moved == [os EXCEPT ![d].logicalDev = os[s].logicalDev,
                          ![d].allocator = os[s].allocator,
                          ![d].size = os[s].size,
                          ![d].vertexBuffer = os[s].vertexBuffer,
                          ![d].allocation = os[s].allocation]
  IN [moved EXCEPT ![s].logicalDev = NullPtr]

BufferMoveAssign(d, s) ==
  /\ call.pc = "idle"
  /\ objs[d].alive
  /\ objs[s].alive
  /\ objs' = MoveAssignObjs(objs, d, s)
  /\ last' = [op |-> "operator=(Buffer&&)", dst |-> d, src |-> s,
              srcBefore |-> objs[s], dstBefore |-> objs[d], calls |-> <<>>]
  /\ UNCHANGED <<nextPair, live, destroys, mem, mapCount, pool, cmdbuf, pending, call, mt, sz>>

\* A mutant of DestructorCalls: the buffer is destroyed whatever isInitialized says.
DestructorCallsAlways(buf) ==
  <<[fn |-> "vmaDestroyBuffer", allocator |-> buf.allocator,
     buffer |-> buf.vertexBuffer, allocation |-> buf.allocation]>>

\* The allocator calls ~Buffer makes.
DestructorCalls(buf) ==
  IF isInitialized(buf)
  THEN <<[fn |-> "vmaDestroyBuffer", allocator |-> buf.allocator,
          buffer |-> buf.vertexBuffer, allocation |-> buf.allocation]>>
  ELSE <<>>

\* Whether a vmaDestroyBuffer call names a live pair, which it then releases.
Releases(c) == c.buffer = c.allocation /\ c.buffer \in live

BufferDtor(o) ==
  /\ call.pc = "idle"
  /\ objs[o].alive
  /\ LET calls == DestructorCalls(objs[o])
         released == {calls[i].buffer : i \in {j \in DOMAIN calls : Releases(calls[j])}}
     IN /\ destroys' = [h \in DOMAIN destroys |->
                          destroys[h] + Cardinality({i \in DOMAIN calls :
                                         <<calls[i].buffer, calls[i].allocation>> = h})]
        /\ live' = live \ released
        /\ mem' = [p \in Pairs |-> IF p \in released THEN <<>> ELSE mem[p]]
        /\ mapCount' = [p \in Pairs |-> IF p \in released THEN 0 ELSE mapCount[p]]
        /\ last' = [op |-> "~Buffer", obj |-> o, before |-> objs[o], calls |-> calls]
  /\ objs' = [objs EXCEPT ![o] = NoObj]
  /\ UNCHANGED <<nextPair, pool, cmdbuf, pending, call, mt, sz>>

(***************************************************************************)
(* Undefined behaviour and the allocator's memory.                         *)
(***************************************************************************)
\* What a write through a dangling handle may leave: nothing changed, or any bytes
\* in any live allocation.
Clobber(m) ==
  {m} \cup UNION {{[m EXCEPT ![q] = b] : b \in Bytes(Len(m[q]))} : q \in live}

\* memcpy of n bytes of data to dstBytes + dstOffset: the bytes dstBytes may hold
\* afterwards. Bytes read past the end of data are arbitrary.
Memcpy(dstBytes, dstOffset, data, n) ==
  {r \in Bytes(Len(dstBytes)) :
     \A i \in 1..Len(dstBytes) :
       IF dstOffset < i /\ i <= dstOffset + n
       THEN (i - dstOffset <= Len(data) => r[i] = data[i - dstOffset])
       ELSE r[i] = dstBytes[i]}

(***************************************************************************)
(* Buffer::loadData.                                                       *)
(***************************************************************************)
\* A mutant of LoadDataCalls: the copy starts at offset in the mapped allocation.
LoadDataCallsAtOffset(buf, data, offset, mapResult) ==
  <<[fn |-> "vmaMapMemory", allocation |-> buf.allocation, result |-> mapResult]>>
  \o (IF mapResult = VK_SUCCESS
      THEN <<[fn |-> "memcpy", dstOffset |-> offset, data |-> data, n |-> buf.size],
             [fn |-> "vmaUnmapMemory", allocation |-> buf.allocation]>>
      ELSE <<>>)

\* A mutant of LoadDataCalls: the allocation stays mapped after the copy.
LoadDataCallsNoUnmap(buf, data, offset, mapResult) ==
  <<[fn |-> "vmaMapMemory", allocation |-> buf.allocation, result |-> mapResult]>>
  \o (IF mapResult = VK_SUCCESS
      THEN <<[fn |-> "memcpy", dstOffset |-> 0, data |-> data, n |-> buf.size]>>
      ELSE <<>>)

\* A mutant of LoadDataCalls: the copy and the unmap do not wait for the map result.
LoadDataCallsUnchecked(buf, data, offset, mapResult) ==
  <<[fn |-> "vmaMapMemory", allocation |-> buf.allocation, result |-> mapResult],
    [fn |-> "memcpy", dstOffset |-> 0, data |-> data, n |-> buf.size],
    [fn |-> "vmaUnmapMemory", allocation |-> buf.allocation]>>

\* The calls loadData makes, vmaMapMemory answering mapResult.
LoadDataCalls(buf, data, offset, mapResult) ==
  <<[fn |-> "vmaMapMemory", allocation |-> buf.allocation, result |-> mapResult]>>
  \o (IF mapResult = VK_SUCCESS
      THEN <<[fn |-> "memcpy", dstOffset |-> 0, data |-> data, n |-> buf.size],
             [fn |-> "vmaUnmapMemory", allocation |-> buf.allocation]>>
      ELSE <<>>)

\* The value loadData returns.
LoadDataReturn(mapResult) == mapResult

CountCalls(calls, fn) == Cardinality({i \in DOMAIN calls : calls[i].fn = fn})

LoadData(o, data, offset, mapResult) ==
  /\ call.pc = "idle"
  /\ objs[o].alive
  /\ LET buf == objs[o]
         a == buf.allocation
         calls == LoadDataCalls(buf, data, offset, mapResult)
         copies == {i \in DOMAIN calls : calls[i].fn = "memcpy"}
         mapped == CountCalls(calls, "vmaMapMemory")
                   - CountCalls(calls, "vmaUnmapMemory")
                   - (IF mapResult = VK_SUCCESS THEN 0 ELSE 1)
     IN IF buf.allocator = NullPtr
        THEN \* *allocator reads through a null pointer
             /\ call' = Crashed
             /\ last' = [op |-> "loadData", obj |-> o, outcome |-> "crashed", calls |-> <<>>]
             /\ UNCHANGED <<mem, mapCount>>
        ELSE IF a \notin live
        THEN \* the allocation was released: a use after free
             \/ /\ call' = Crashed
                /\ last' = [op |-> "loadData", obj |-> o, outcome |-> "crashed",
                            calls |-> <<>>]
                /\ UNCHANGED <<mem, mapCount>>
             \/ /\ mem' \in Clobber(mem)
                /\ last' = [op |-> "loadData", obj |-> o, outcome |-> "undefined",
                            calls |-> calls]
                /\ UNCHANGED <<call, mapCount>>
        ELSE /\ mem' \in IF copies = {} THEN {mem}
                         ELSE LET c == calls[Min(copies)]
                              IN {[mem EXCEPT ![a] = r] :
                                    r \in Memcpy(mem[a], c.dstOffset, c.data, c.n)}
             /\ mapCount' = [mapCount EXCEPT ![a] = @ + mapped]
             /\ last' = [op |-> "loadData", obj |-> o, outcome |-> "returned",
                         data |-> data, offset |-> offset, mapResult |-> mapResult,
                         ret |-> LoadDataReturn(mapResult), before |-> buf,
                         memBefore |-> mem[a], calls |-> calls]
             /\ UNCHANGED call
  /\ UNCHANGED <<objs, nextPair, live, destroys, pool, cmdbuf, pending, mt, sz>>

\* UniformObjBuffer<T>::loadData(data, offset): data is one T, of size bytes.
UniformObjBufferLoadData(o, data, offset, mapResult) ==
  /\ Len(data) = objs[o].size
  /\ LoadData(o, data, offset, mapResult)

(***************************************************************************)
(* Buffer::cmdCopyDataFrom and Buffer::copyDataFrom.                       *)
(***************************************************************************)
\* A mutant of cmdCopyDataFrom: the source and the destination are exchanged.
cmdCopyDataFromSwapped(buf, src) ==
  [fn |-> "vkCmdCopyBuffer", src |-> buf.vertexBuffer, dst |-> src,
   regions |-> <<[srcOffset |-> 0, dstOffset |-> 0, size |-> buf.size]>>]

\* The command cmdCopyDataFrom records for destination buf and source handle src.
cmdCopyDataFrom(buf, src) ==
  [fn |-> "vkCmdCopyBuffer", src |-> src, dst |-> buf.vertexBuffer,
   regions |-> <<[srcOffset |-> 0, dstOffset |-> 0, size |-> buf.size]>>]

\* The caller opens a command buffer of its own, in which copies can be recorded:
\* the transferBuffer argument of cmdCopyDataFrom.
CallerBeginCommandBuffer ==
  /\ call.pc = "idle"
  /\ CmdBufs \ pool # {}
  /\ LET c == Min(CmdBufs \ pool)
     IN /\ pool' = pool \cup {c}
        /\ cmdbuf' = [cmdbuf EXCEPT ![c] =
                        [state |-> "recording",
                         level |-> "VK_COMMAND_BUFFER_LEVEL_PRIMARY",
                         flags |-> "none", cmds |-> <<>>]]
  /\ last' = [op |-> "vkBeginCommandBuffer", calls |-> <<>>]
  /\ UNCHANGED <<objs, nextPair, live, destroys, mem, mapCount, pending, call, mt, sz>>

\* A mutant of CmdCopyDataFromCalls: the copy is recorded twice.
CmdCopyDataFromCallsTwice(buf, src) ==
  <<cmdCopyDataFrom(buf, src), cmdCopyDataFrom(buf, src)>>

\* The calls cmdCopyDataFrom(src, transferBuffer) makes on transferBuffer.
CmdCopyDataFromCalls(buf, src) ==
  <<cmdCopyDataFrom(buf, src)>>

\* cmdCopyDataFrom(Buffer const& src, transferBuffer) on destination d, the
\* command buffer c being open.
CmdCopyDataFrom(d, s, c) ==
  /\ call.pc = "idle"
  /\ objs[d].alive
  /\ objs[s].alive
  /\ c \in pool
  /\ cmdbuf[c].state = "recording"
  /\ Len(cmdbuf[c].cmds) < MaxCmds
  /\ LET calls == CmdCopyDataFromCalls(objs[d], objs[s].vertexBuffer)
     IN /\ cmdbuf' = [cmdbuf EXCEPT ![c].cmds = @ \o calls]
        /\ last' = [op |-> "cmdCopyDataFrom", obj |-> d, src |-> s,
                    transferBuffer |-> c, calls |-> calls,
                    before |-> [objs |-> objs, pool |-> pool, cmdbuf |-> cmdbuf,
                                pending |-> pending, live |-> live, mem |-> mem,
                                mapCount |-> mapCount, destroys |-> destroys]]
  /\ UNCHANGED <<objs, nextPair, live, destroys, mem, mapCount, pool, pending, call,
                 mt, sz>>

\* What the device leaves in memory m when it executes one recorded copy.
ExecCopy(m, cmd) ==
  LET n == cmd.regions[1].size
  IN IF cmd.dst \notin live
     THEN Clobber(m)
     ELSE IF /\ cmd.src \in live
             /\ cmd.src # cmd.dst
             /\ n <= Len(m[cmd.src])
             /\ n <= Len(m[cmd.dst])
          THEN {[m EXCEPT ![cmd.dst] =
                   [i \in 1..Len(m[cmd.dst]) |->
                      IF i <= n THEN m[cmd.src][i] ELSE m[cmd.dst][i]]]}
          ELSE \* a source that is gone, too short, or the destination itself
               {[m EXCEPT ![cmd.dst] = b] : b \in Bytes(Len(m[cmd.dst]))}

RECURSIVE ExecCmds(_, _)
ExecCmds(ms, cmds) ==
  IF cmds = <<>> THEN ms
  ELSE ExecCmds(UNION {ExecCopy(m, Head(cmds)) : m \in ms}, Tail(cmds))

\* The steps of copyDataFrom in the order of its statements.
CopySteps == <<"allocate", "begin", "record", "end", "submit", "waitIdle", "free">>

\* A mutant of CopyThrow: the failed step is tried again.
CopyThrowRetry(step) ==
  /\ call' = [call EXCEPT !.trace = Append(@, step)]
  /\ UNCHANGED last

\* The exception CHECK_VK_SUCCESS raises leaves copyDataFrom at once.
CopyThrow(step) ==
  /\ call' = Idle
  /\ last' = [op |-> "copyDataFrom", obj |-> call.this, outcome |-> "threw",
              failedAt |-> step, src |-> call.src, cmdBuffer |-> call.cmdBuffer,
              poolBefore |-> call.poolBefore, srcAtCall |-> call.srcAtCall,
              pendingAtCall |-> call.pendingAtCall,
              trace |-> Append(call.trace, step)]

CopyCrash ==
  /\ call' = Crashed
  /\ last' = [op |-> "copyDataFrom", obj |-> call.this, outcome |-> "crashed",
              trace |-> call.trace]

CopyAdvance(step, next) ==
  call' = [call EXCEPT !.pc = next, !.trace = Append(@, step)]

\* copyDataFrom(Buffer const& src, ...) on destination d: the call begins.
CopyDataFrom(d, s) ==
  /\ call.pc = "idle"
  /\ objs[d].alive
  /\ objs[s].alive
  /\ call' = [pc |-> "allocate", this |-> d, src |-> objs[s].vertexBuffer,
              cmdBuffer |-> VK_NULL_HANDLE, poolBefore |-> Cardinality(pool),
              srcAtCall |-> IF objs[s].vertexBuffer \in live
                            THEN mem[objs[s].vertexBuffer] ELSE <<>>,
              pendingAtCall |-> pending, trace |-> <<>>]
  /\ UNCHANGED <<objs, nextPair, live, destroys, mem, mapCount, pool, cmdbuf,
                 pending, last, mt, sz>>

\* vkAllocateCommandBuffers(*logicalDev, ...) for one primary command buffer.
CopyAllocate(result) ==
  /\ call.pc = "allocate"
  /\ IF objs[call.this].logicalDev = NullPtr
     THEN \* *logicalDev reads through a null pointer
          /\ CopyCrash
          /\ UNCHANGED <<pool, cmdbuf>>
     ELSE IF CHECK_VK_SUCCESS(result)
     THEN /\ CopyThrow("allocate")
          /\ UNCHANGED <<pool, cmdbuf>>
     ELSE /\ CmdBufs \ pool # {}
          /\ LET c == Min(CmdBufs \ pool)
             IN /\ pool' = pool \cup {c}
                /\ cmdbuf' = [cmdbuf EXCEPT ![c] =
                                [state |-> "initial",
                                 level |-> "VK_COMMAND_BUFFER_LEVEL_PRIMARY",
                                 flags |-> "none", cmds |-> <<>>]]
                /\ call' = [call EXCEPT !.pc = "begin", !.cmdBuffer = c,
                                        !.trace = Append(@, "allocate")]
          /\ UNCHANGED last
  /\ UNCHANGED <<objs, nextPair, live, destroys, mem, mapCount, pending, mt, sz>>

\* vkBeginCommandBuffer with VK_COMMAND_BUFFER_USAGE_ONE_TIME_SUBMIT_BIT.
CopyBegin(result) ==
  /\ call.pc = "begin"
  /\ IF CHECK_VK_SUCCESS(result)
     THEN /\ CopyThrow("begin")
          /\ UNCHANGED cmdbuf
     ELSE /\ cmdbuf' = [cmdbuf EXCEPT ![call.cmdBuffer].state = "recording",
                                     ![call.cmdBuffer].flags = "ONE_TIME_SUBMIT",
                                     ![call.cmdBuffer].cmds = <<>>]
          /\ CopyAdvance("begin", "record")
          /\ UNCHANGED last
  /\ UNCHANGED <<objs, nextPair, live, destroys, mem, mapCount, pool, pending, mt, sz>>

\* cmdCopyDataFrom(src, cmdBuffer).
CopyRecord ==
  /\ call.pc = "record"
  /\ cmdbuf' = [cmdbuf EXCEPT ![call.cmdBuffer].cmds =
                  Append(@, cmdCopyDataFrom(objs[call.this], call.src))]
  /\ CopyAdvance("record", "end")
  /\ UNCHANGED <<objs, nextPair, live, destroys, mem, mapCount, pool, pending, last, mt, sz>>

\* vkEndCommandBuffer.
CopyEnd(result) ==
  /\ call.pc = "end"
  /\ IF CHECK_VK_SUCCESS(result)
     THEN /\ CopyThrow("end")
          /\ UNCHANGED cmdbuf
     ELSE /\ cmdbuf' = [cmdbuf EXCEPT ![call.cmdBuffer].state = "executable"]
          /\ CopyAdvance("end", "submit")
          /\ UNCHANGED last
  /\ UNCHANGED <<objs, nextPair, live, destroys, mem, mapCount, pool, pending, mt, sz>>

\* vkQueueSubmit of the one command buffer, no semaphores, no fence.
CopySubmit(result) ==
  /\ call.pc = "submit"
  /\ IF CHECK_VK_SUCCESS(result)
     THEN /\ CopyThrow("submit")
          /\ UNCHANGED <<cmdbuf, pending>>
     ELSE /\ cmdbuf' = [cmdbuf EXCEPT ![call.cmdBuffer].state = "pending"]
          /\ pending' = pending \cup {call.cmdBuffer}
          /\ CopyAdvance("submit", "waitIdle")
          /\ UNCHANGED last
  /\ UNCHANGED <<objs, nextPair, live, destroys, mem, mapCount, pool, mt, sz>>

\* A mutant of QueueIsIdle: the wait returns at once.
QueueIsIdleNoWait == TRUE

\* vkQueueWaitIdle returns VK_SUCCESS only once the queue has nothing left to execute.
QueueIsIdle == pending = {}

\* vkQueueWaitIdle(transferQueue): blocks until the queue is idle, or fails.
CopyWaitIdle(result) ==
  /\ call.pc = "waitIdle"
  /\ IF CHECK_VK_SUCCESS(result)
     THEN CopyThrow("waitIdle")
     ELSE /\ QueueIsIdle
          /\ CopyAdvance("waitIdle", "free")
          /\ UNCHANGED last
  /\ UNCHANGED <<objs, nextPair, live, destroys, mem, mapCount, pool, cmdbuf, pending, mt, sz>>

\* vkFreeCommandBuffers(*logicalDev, transferCmdPool, 1, &cmdBuffer), then the return.
CopyFree ==
  /\ call.pc = "free"
  /\ pool' = pool \ {call.cmdBuffer}
  /\ cmdbuf' = [cmdbuf EXCEPT ![call.cmdBuffer] = NoCmdBuf]
  /\ call' = Idle
  /\ last' = [op |-> "copyDataFrom", obj |-> call.this, outcome |-> "returned",
              src |-> call.src, cmdBuffer |-> call.cmdBuffer,
              poolBefore |-> call.poolBefore, srcAtCall |-> call.srcAtCall,
              pendingAtCall |-> call.pendingAtCall,
              trace |-> Append(call.trace, "free")]
  /\ UNCHANGED <<objs, nextPair, live, destroys, mem, mapCount, pending, mt, sz>>

\* The device executes one submitted command buffer.
QueueExecute(c) ==
  /\ call.pc # "crashed"
  /\ c \in pending
  /\ pending' = pending \ {c}
  /\ mem' \in IF c \in pool THEN ExecCmds({mem}, cmdbuf[c].cmds) ELSE Clobber(mem)
  /\ cmdbuf' = IF c \in pool THEN [cmdbuf EXCEPT ![c].state = "invalid"] ELSE cmdbuf
  /\ UNCHANGED <<objs, nextPair, live, destroys, mapCount, pool, call, last, mt, sz>>

(***************************************************************************)
(* The size of a Buffer at its full width.                                 *)
(***************************************************************************)
\* A size_t is the set of the positions of its one bits, as a uint32_t is.
SizeT(S) == S \cap (0..(SizeTBits - 1))

\* The bits a bufferSize may have set: the lowest ones, those on either side of the
\* width of uint32_t, and the top one.
SizeBitPositions ==
  (0..(MaxSizeBits - 1)) \cup {UInt32Bits - 1, UInt32Bits, SizeTBits - 1}
SizeTs == {SizeT(S) : S \in SUBSET SizeBitPositions}

\* The size_t holding the natural number n.
SizeBits(n) == {i \in 0..(UInt32Bits - 2) : (n \div (2 ^ i)) % 2 = 1}

\* Buffer::getSize() of a Buffer whose field size is the given size_t.
getSize(size) == UInt32(size)

NoSized ==
  [pc |-> "none", dev |-> NullPtr, bufferSize |-> {}, logicalDev |-> NullPtr,
   size |-> {}, createInfoSize |-> {}, read |-> FALSE, isInitialized |-> FALSE,
   getSize |-> {}, loaded |-> FALSE, memcpyLen |-> {}, recorded |-> FALSE,
   copyRegionSize |-> {}]

\* Buffer::Buffer(dev, allocator, physicalDev, bufferSize, ...) of the size drawn at
\* the start: the initialisers, then the one creation call, answering result.
SizedCtor(result) ==
  /\ sz.pc = "new"
  /\ sz' = IF CHECK_VK_SUCCESS(result)
           THEN [sz EXCEPT !.pc = "threw"]
           ELSE [sz EXCEPT !.pc = "constructed", !.logicalDev = sz.dev,
                           !.size = sz.bufferSize, !.createInfoSize = sz.bufferSize]
  /\ UNCHANGED <<bufVars, mt>>

\* isInitialized() and getSize() of the constructed Buffer.
SizedGetSize ==
  /\ sz.pc = "constructed"
  /\ ~sz.read
  /\ sz' = [sz EXCEPT !.read = TRUE,
                      !.isInitialized = isInitialized(sz),
                      !.getSize = getSize(sz.size)]
  /\ UNCHANGED <<bufVars, mt>>

\* The length loadData passes to memcpy.
SizedLoadData ==
  /\ sz.pc = "constructed"
  /\ ~sz.loaded
  /\ sz' = [sz EXCEPT !.loaded = TRUE, !.memcpyLen = sz.size]
  /\ UNCHANGED <<bufVars, mt>>

\* The size of the copy region cmdCopyDataFrom records.
SizedCmdCopyDataFrom ==
  /\ sz.pc = "constructed"
  /\ ~sz.recorded
  /\ sz' = [sz EXCEPT !.recorded = TRUE, !.copyRegionSize = sz.size]
  /\ UNCHANGED <<bufVars, mt>>

(***************************************************************************)
(* Specifications.                                                         *)
(***************************************************************************)
\* No Buffer object, an empty allocator, an empty pool and an idle queue.
InitBuffers ==
  /\ objs = [o \in Objs |-> NoObj]
  /\ nextPair = 0
  /\ live = {}
  /\ destroys = [h \in Handles \X Handles |-> 0]
  /\ mem = [p \in Pairs |-> <<>>]
  /\ mapCount = [p \in Pairs |-> 0]
  /\ pool = {}
  /\ cmdbuf = [c \in CmdBufs |-> NoCmdBuf]
  /\ pending = {}
  /\ call = Idle
  /\ last = NoCall

Init ==
  /\ InitBuffers
  /\ mt = NoMemTypeCall
  /\ sz = NoSized

\* A fresh allocation whose bytes are all zero.
Zeros(n) == [i \in 1..n |-> 0]

\* Construction, move and destruction, with every queue family set.
LifeStep ==
  \/ \E o \in Objs, dev \in Devices, bufferSize \in Sizes,
        usedQueues \in OptUint32Sets, result \in VkResults :
       BufferCtor(o, dev, bufferSize, usedQueues, result, Zeros(bufferSize))
  \/ \E o \in Objs : BufferDefaultCtor(o)
  \/ \E d, s \in Objs : BufferMoveCtor(d, s)
  \/ \E d, s \in Objs : BufferMoveAssign(d, s)
  \/ \E o \in Objs : BufferDtor(o)

\* Construction with arbitrary initial bytes, on one device, for exclusive use.
PlainCtor ==
  \E o \in Objs, bufferSize \in Sizes, result \in VkResults :
    \E bytes \in Bytes(bufferSize) :
      BufferCtor(o, Min(Devices), bufferSize, nullopt, result, bytes)

LoadStep ==
  \E o \in Objs, data \in DataSeqs, offset \in {0, 1}, mapResult \in VkResults :
    \/ LoadData(o, data, offset, mapResult)
    \/ UniformObjBufferLoadData(o, data, offset, mapResult)

CopyStepOfCall ==
  \/ \E d, s \in Objs : CopyDataFrom(d, s)
  \/ \E result \in VkResults : CopyAllocate(result)
  \/ \E result \in VkResults : CopyBegin(result)
  \/ CopyRecord
  \/ \E result \in VkResults : CopyEnd(result)
  \/ \E result \in VkResults : CopySubmit(result)
  \/ \E result \in VkResults : CopyWaitIdle(result)
  \/ CopyFree
  \/ \E c \in CmdBufs : QueueExecute(c)

\* The lifetime of Buffer objects.
Next == LifeStep

Spec == Init /\ [][Next]_vars

\* Uploads into buffers that are constructed, moved and destroyed.
NextLoad ==
  \/ PlainCtor
  \/ \E o \in Objs : BufferDefaultCtor(o)
  \/ \E d, s \in Objs : BufferMoveCtor(d, s)
  \/ \E d, s \in Objs : BufferMoveAssign(d, s)
  \/ \E o \in Objs : BufferDtor(o)
  \/ LoadStep

SpecLoad == Init /\ [][NextLoad]_vars

\* Transfers between buffers that are constructed and destroyed.
NextCopy ==
  \/ \E o \in Objs, bufferSize \in Sizes :
       \E bytes \in Bytes(bufferSize) :
         BufferCtor(o, Min(Devices), bufferSize, nullopt, VK_SUCCESS, bytes)
  \/ \E o \in Objs : BufferDtor(o)
  \/ CopyStepOfCall

SpecCopy == Init /\ [][NextCopy]_vars

\* The memory type selector alone, on every argument within the bounds.
InitMemType ==
  /\ InitBuffers
  /\ \E memoryTypes \in TypeLists, properties \in FlagSets, filter \in Filters :
       mt = [NoMemTypeCall EXCEPT !.memoryTypes = memoryTypes,
                                  !.properties = properties, !.filter = filter]
  /\ sz = NoSized

NextMemType == GetMemoryTypeCall

SpecMemType == InitMemType /\ [][NextMemType]_vars

\* Construction, moves and destruction together with uploads of zero bytes and
\* transfers whose steps succeed, the recording of the copy among them.
NextOps ==
  \/ \E o \in Objs, bufferSize \in Sizes :
       BufferCtor(o, Min(Devices), bufferSize, nullopt, VK_SUCCESS, Zeros(bufferSize))
  \/ \E d, s \in Objs : BufferMoveCtor(d, s)
  \/ \E d, s \in Objs : BufferMoveAssign(d, s)
  \/ \E o \in Objs : BufferDtor(o)
  \/ \E o \in Objs, mapResult \in VkResults :
       LoadData(o, Zeros(objs[o].size), 0, mapResult)
  \/ \E d, s \in Objs : CopyDataFrom(d, s)
  \/ CopyAllocate(VK_SUCCESS)
  \/ CopyBegin(VK_SUCCESS)
  \/ CopyRecord
  \/ CopyEnd(VK_SUCCESS)
  \/ CopySubmit(VK_SUCCESS)
  \/ CopyWaitIdle(VK_SUCCESS)
  \/ CopyFree
  \/ \E c \in CmdBufs : QueueExecute(c)

SpecOps == Init /\ [][NextOps]_vars

\* Copies recorded into command buffers of the caller, between buffers that are
\* constructed, moved and destroyed.
NextRecord ==
  \/ \E o \in Objs, bufferSize \in Sizes :
       BufferCtor(o, Min(Devices), bufferSize, nullopt, VK_SUCCESS, Zeros(bufferSize))
  \/ \E d, s \in Objs : BufferMoveCtor(d, s)
  \/ \E d, s \in Objs : BufferMoveAssign(d, s)
  \/ \E o \in Objs : BufferDtor(o)
  \/ CallerBeginCommandBuffer
  \/ \E d, s \in Objs, c \in CmdBufs : CmdCopyDataFrom(d, s, c)

SpecRecord == Init /\ [][NextRecord]_vars

\* One Buffer per bufferSize within the bounds, kept at the width of size_t.
InitSize ==
  /\ InitBuffers
  /\ mt = NoMemTypeCall
  /\ \E dev \in Devices, bufferSize \in SizeTs :
       sz = [NoSized EXCEPT !.pc = "new", !.dev = dev, !.bufferSize = bufferSize]

NextSize ==
  \/ \E result \in VkResults : SizedCtor(result)
  \/ SizedGetSize
  \/ SizedLoadData
  \/ SizedCmdCopyDataFrom

SpecSize == InitSize /\ [][NextSize]_vars

(***************************************************************************)
(* The claims.                                                             *)
(***************************************************************************)
\* The indices the selector may return: bit i of the filter is one and the flags of
\* type i hold every required flag.
Suitable(memoryTypes, properties, filter) ==
  {i \in 0..(Len(memoryTypes) - 1) :
     i \in filter /\ properties \subseteq memoryTypes[i + 1]}

\* C1: getMemoryType returns the lowest index i such that bit i of the filter is set
\* and the flags of type i are a superset of the required flags, and it raises if and
\* only if there is no such index.
C1_LowestSuitableIndex ==
  mt.called =>
    LET good == Suitable(mt.memoryTypes, mt.properties, mt.filter)
    IN /\ mt.result.threw <=> good = {}
       /\ good # {} => /\ mt.result.value \in good
                       /\ \A i \in good : mt.result.value <= i

\* C1 witness: a call that returned index 1 although type 0 carries the required
\* flags too (its filter bit is clear), and a filter bit beyond the list is set.
C1_Witness ==
  /\ mt.called
  /\ ~mt.result.threw
  /\ mt.result.value = 1
  /\ mt.properties # {}
  /\ mt.properties \subseteq mt.memoryTypes[1]
  /\ Len(mt.memoryTypes) \in mt.filter

\* The fields a move hands over.
SameFields(a, b) ==
  /\ a.logicalDev = b.logicalDev
  /\ a.allocator = b.allocator
  /\ a.size = b.size
  /\ a.vertexBuffer = b.vertexBuffer
  /\ a.allocation = b.allocation

IsMove == last.op \in {"Buffer(Buffer&&)", "operator=(Buffer&&)"}

\* C2: the constructor makes exactly one allocator create call; with no queue family
\* set, or one of at most one element, the call shares exclusively and lists no queue
\* index; with a set of more than one element it shares concurrently and lists
\* exactly the elements of the set, each once.
C2_SharingModeByQueueCount ==
  last.op = "Buffer" =>
    /\ Len(last.calls) = 1
    /\ last.calls[1].fn = "vmaCreateBuffer"
    /\ LET info == last.calls[1].createInfo
           q == last.usedQueues
           listed == {info.pQueueFamilyIndices[i] : i \in DOMAIN info.pQueueFamilyIndices}
       IN IF ~q.has_value \/ Cardinality(q.value) <= 1
          THEN /\ info.sharingMode = "VK_SHARING_MODE_EXCLUSIVE"
               /\ info.queueFamilyIndexCount = 0
               /\ info.pQueueFamilyIndices = <<>>
          ELSE /\ info.sharingMode = "VK_SHARING_MODE_CONCURRENT"
               /\ listed = q.value
               /\ Len(info.pQueueFamilyIndices) = Cardinality(q.value)
               /\ info.queueFamilyIndexCount = Cardinality(q.value)

\* C2 witness: a construction with the queue family set {0, 2} that shared
\* concurrently, listing two indices.
C2_Witness ==
  /\ last.op = "Buffer"
  /\ ~last.threw
  /\ last.usedQueues = [has_value |-> TRUE, value |-> {0, 2}]
  /\ last.calls[1].createInfo.sharingMode = "VK_SHARING_MODE_CONCURRENT"
  /\ last.calls[1].createInfo.pQueueFamilyIndices = <<0, 2>>

\* C3 as stated: after a move construction or a move assignment the source is not
\* initialized and the destination holds the handles, the size and the device and
\* allocator references the source had, also when both are the same object.
C3_Original ==
  IsMove =>
    /\ ~isInitialized(objs[last.src])
    /\ SameFields(objs[last.dst], last.srcBefore)

\* C3 amended: the statement of C3 for a source and a destination that are distinct
\* objects, the destination initialized before or not; after a move assignment of
\* an object to itself the object is not initialized, its device reference is null,
\* and it keeps its handles, its size and its allocator reference.
C3_MoveHandsOver ==
  IsMove =>
    /\ ~isInitialized(objs[last.src])
    /\ objs[last.dst].alive
    /\ IF last.dst # last.src
       THEN SameFields(objs[last.dst], last.srcBefore)
       ELSE SameFields(objs[last.dst], [last.srcBefore EXCEPT !.logicalDev = NullPtr])

\* C3 witness: a move assignment between two distinct initialized objects holding
\* different pairs.
C3_Witness ==
  /\ last.op = "operator=(Buffer&&)"
  /\ last.dst # last.src
  /\ isInitialized(last.srcBefore)
  /\ isInitialized(last.dstBefore)
  /\ last.srcBefore.allocation # last.dstBefore.allocation
  /\ last.srcBefore.logicalDev # last.dstBefore.logicalDev

\* C4: vmaDestroyBuffer is never called more than once for the same (buffer,
\* allocation) pair, and the destruction of a Buffer that is not initialized
\* (moved-from or default-constructed) makes no allocator call.
C4_NoDoubleDestroy ==
  /\ \A h \in DOMAIN destroys : destroys[h] <= 1
  /\ (last.op = "~Buffer" /\ ~isInitialized(last.before)) => last.calls = <<>>

\* C4 witness: a moved-from Buffer is destroyed after the new owner released the
\* pair whose handles it still holds.
C4_Witness ==
  /\ last.op = "~Buffer"
  /\ ~isInitialized(last.before)
  /\ last.before.vertexBuffer # VK_NULL_HANDLE
  /\ destroys[<<last.before.vertexBuffer, last.before.allocation>>] = 1

\* C5 as stated: once every Buffer object has been destroyed, every pair a
\* constructor created has been released through the allocator.
C5_NoLeak ==
  (\A o \in Objs : ~objs[o].alive) => live = {}

\* C6: when the allocator rejects the creation the constructor raises, no Buffer
\* object results, no pair was created or is left live by the call, and the call
\* made no destroy call.
C6_RejectedCreation ==
  (last.op = "Buffer" /\ last.calls[1].result # VK_SUCCESS) =>
    /\ last.threw
    /\ ~objs[last.obj].alive
    /\ last.handle = VK_NULL_HANDLE
    /\ live = last.liveBefore
    /\ \A i \in DOMAIN last.calls : last.calls[i].fn # "vmaDestroyBuffer"

\* C6 witness: a rejected construction while another Buffer holds a live pair.
C6_Witness ==
  /\ last.op = "Buffer"
  /\ last.calls[1].result # VK_SUCCESS
  /\ last.threw
  /\ live # {}

LoadReturned == last.op = "loadData" /\ last.outcome = "returned"

\* C7: a successful loadData(x, offset) with x of at least size bytes leaves bytes
\* [0, size) of the allocation equal to the first size bytes of x, whatever offset
\* is, and changes nothing when the allocation already held these bytes.
C7_LoadRoundTrip ==
  (/\ LoadReturned
   /\ last.ret = VK_SUCCESS
   /\ Len(last.data) >= last.before.size) =>
    LET a == last.before.allocation
        n == last.before.size
    IN /\ Len(mem[a]) >= n
       /\ \A i \in 1..n : mem[a][i] = last.data[i]
       /\ \A i \in (n + 1)..Len(mem[a]) : mem[a][i] = last.memBefore[i]
       /\ (\A i \in 1..n : last.memBefore[i] = last.data[i]) => mem[a] = last.memBefore

\* C7 witness: a successful load at offset 1 of two bytes into a buffer of two bytes
\* that held other bytes.
C7_Witness ==
  /\ LoadReturned
  /\ last.ret = VK_SUCCESS
  /\ last.offset = 1
  /\ last.before.size = 2
  /\ last.data = <<1, 0>>
  /\ last.memBefore = <<0, 1>>
  /\ mem[last.before.allocation] = <<1, 0>>

\* C8: when vmaMapMemory fails loadData returns that result without raising, makes
\* no copy and no unmap, and leaves the content and the fields of the buffer as
\* they were.
C8_MapFailure ==
  (LoadReturned /\ last.mapResult # VK_SUCCESS) =>
    /\ last.ret = last.mapResult
    /\ Len(last.calls) = 1
    /\ last.calls[1].fn = "vmaMapMemory"
    /\ objs[last.obj] = last.before
    /\ mem[last.before.allocation] = last.memBefore
    /\ mapCount[last.before.allocation] = 0

\* C8 witness: a load that failed to map, of bytes the buffer does not hold.
C8_Witness ==
  /\ LoadReturned
  /\ last.ret # VK_SUCCESS
  /\ Len(last.data) >= last.before.size
  /\ \E i \in 1..last.before.size : last.data[i] # last.memBefore[i]

\* The state in which a copyDataFrom call has just returned.
CopyReturned ==
  call.pc = "idle" /\ last.op = "copyDataFrom" /\ last.outcome = "returned"

\* C9 as stated: after copyFrom(src) into dst returned, bytes [0, dst.size) of dst
\* equal bytes [0, dst.size) of src as they were at the call, and the content of
\* src is as it was, for every pair of buffers.
C9_Original ==
  CopyReturned =>
    LET d == objs[last.obj]
    IN /\ \A i \in 1..d.size :
            /\ i <= Len(last.srcAtCall)
            /\ mem[d.vertexBuffer][i] = last.srcAtCall[i]
       /\ mem[last.src] = last.srcAtCall

\* C9 amended: the statement of C9 for a source and a destination that are distinct
\* buffers, the source holding at least dst.size bytes, when no earlier copy is
\* still pending in the transfer queue at the call.
C9_CopyResult ==
  (/\ CopyReturned
   /\ last.src # objs[last.obj].vertexBuffer
   /\ Len(last.srcAtCall) >= objs[last.obj].size
   /\ last.pendingAtCall = {}) =>
    LET d == objs[last.obj]
    IN /\ \A i \in 1..d.size : mem[d.vertexBuffer][i] = last.srcAtCall[i]
       /\ mem[last.src] = last.srcAtCall

\* C9 witness: a copy of one byte out of a source of two bytes returned, and the
\* destination held another byte before.
C9_Witness ==
  /\ CopyReturned
  /\ last.src # objs[last.obj].vertexBuffer
  /\ objs[last.obj].size = 1
  /\ last.srcAtCall = <<1, 0>>
  /\ last.pendingAtCall = {}
  /\ mem[objs[last.obj].vertexBuffer] = <<1>>

\* C10: a copyFrom that returns has allocated one command buffer, begun it for one
\* submission, recorded one copy, ended it, submitted it, waited for the queue to be
\* idle and freed it, in this order and once each; no command buffer is freed, and
\* the call does not return, while its copy is pending; on return the pool has as
\* many command buffers outstanding as before the call.
C10_CopySteps ==
  /\ pending \subseteq pool
  /\ call.pc \in {"begin", "record", "end", "submit", "waitIdle", "free"} =>
       /\ call.cmdBuffer \in pool
       /\ cmdbuf[call.cmdBuffer].level = "VK_COMMAND_BUFFER_LEVEL_PRIMARY"
       /\ Cardinality(pool) = call.poolBefore + 1
  /\ call.pc \in {"record", "end", "submit", "waitIdle", "free"} =>
       /\ cmdbuf[call.cmdBuffer].flags = "ONE_TIME_SUBMIT"
  /\ call.pc \in {"end", "submit", "waitIdle", "free"} =>
       cmdbuf[call.cmdBuffer].cmds = <<cmdCopyDataFrom(objs[call.this], call.src)>>
  /\ call.pc = "free" => call.cmdBuffer \notin pending
  /\ CopyReturned =>
       /\ last.trace = <<"allocate", "begin", "record", "end", "submit", "waitIdle", "free">>
       /\ last.cmdBuffer \notin pending
       /\ last.cmdBuffer \notin pool
       /\ pending = {}
       /\ Cardinality(pool) = last.poolBefore

\* C10 witness: a copy returned while the pool held another command buffer.
C10_Witness ==
  /\ CopyReturned
  /\ last.poolBefore = 1
  /\ Cardinality(pool) = 1

\* The state in which a copyDataFrom call has just raised.
CopyThrew ==
  call.pc = "idle" /\ last.op = "copyDataFrom" /\ last.outcome = "threw"

\* C11 as stated: after a copyFrom that raised, at whatever step, the pool has as
\* many command buffers outstanding as before the call.
C11_PoolRestoredOnFailure ==
  CopyThrew => Cardinality(pool) = last.poolBefore

\* C12: a copyFrom runs its steps in the order allocate, begin, record, end, submit,
\* wait-idle, free, each at most once; when a step fails the call raises with this
\* step as the last one it ran, and when allocate, begin or end failed its command
\* buffer was never submitted and the queue received nothing from the call.
C12_FailFast ==
  /\ call.pc \notin {"idle", "crashed"} =>
       /\ call.trace = SubSeq(CopySteps, 1, Len(call.trace))
       /\ call.pc = CopySteps[Len(call.trace) + 1]
  /\ CopyThrew =>
       LET n == Len(last.trace)
       IN /\ n >= 1
          /\ last.trace = SubSeq(CopySteps, 1, n)
          /\ last.trace[n] = last.failedAt
          /\ last.failedAt \in {"allocate", "begin", "end", "submit", "waitIdle"}
          /\ last.failedAt \in {"allocate", "begin", "end"} =>
               /\ pending \subseteq last.pendingAtCall
               /\ last.cmdBuffer \notin pending
               /\ last.cmdBuffer # VK_NULL_HANDLE =>
                    cmdbuf[last.cmdBuffer].state \in {"initial", "recording"}

\* C12 witness: a copy raised at vkEndCommandBuffer, after the copy was recorded,
\* while an earlier copy was still pending in the queue.
C12_Witness ==
  /\ CopyThrew
  /\ last.failedAt = "end"
  /\ last.trace = <<"allocate", "begin", "record", "end">>
  /\ Len(cmdbuf[last.cmdBuffer].cmds) = 1
  /\ last.pendingAtCall # {}
  /\ pending = last.pendingAtCall

\* The Buffer objects that are initialized and hold the pair p.
Owners(p) ==
  {o \in Objs : /\ objs[o].alive
                /\ isInitialized(objs[o])
                /\ objs[o].vertexBuffer = p
                /\ objs[o].allocation = p}

\* C13 as stated: in every state reached by constructions, move constructions, move
\* assignments and destructions, each pair created and not yet released is held by
\* exactly one initialized Buffer object.
C13_ExactlyOneOwner ==
  \A p \in live : Cardinality(Owners(p)) = 1

\* C17: constructors being called with a device and an allocator that are not null,
\* every initialized Buffer has an allocator reference that is not null and holds a
\* pair that was created and has not been released.
C17_InitializedHoldsLivePair ==
  \A o \in Objs :
    (objs[o].alive /\ isInitialized(objs[o])) =>
      /\ objs[o].allocator # NullPtr
      /\ objs[o].vertexBuffer = objs[o].allocation
      /\ objs[o].allocation \in 1..nextPair
      /\ objs[o].allocation \in live

\* C17 witness: an initialized Buffer holds a live pair while a moved-from Buffer
\* still holds the handles of a pair that has been released.
C17_Witness ==
  \E o, m \in Objs :
    /\ objs[o].alive /\ isInitialized(objs[o])
    /\ objs[o].allocation \in live
    /\ objs[m].alive /\ ~isInitialized(objs[m])
    /\ objs[m].allocation # VK_NULL_HANDLE
    /\ objs[m].allocation \notin live
    /\ destroys[<<objs[m].vertexBuffer, objs[m].allocation>>] = 1

\* C14: no allocation is mapped in any state between loadData calls; a loadData
\* whose map succeeded makes exactly one unmap, of the allocation it mapped, after
\* the map, and a loadData whose map failed makes none.
C14_MapUnmapPaired ==
  /\ \A p \in Pairs : mapCount[p] = 0
  /\ LoadReturned =>
       LET maps == {i \in DOMAIN last.calls : last.calls[i].fn = "vmaMapMemory"}
           unmaps == {i \in DOMAIN last.calls : last.calls[i].fn = "vmaUnmapMemory"}
       IN /\ maps = {1}
          /\ IF last.calls[1].result = VK_SUCCESS
             THEN /\ Cardinality(unmaps) = 1
                  /\ \A i \in unmaps :
                       /\ i > 1
                       /\ last.calls[i].allocation = last.calls[1].allocation
             ELSE unmaps = {}

\* C14 witness: a load that mapped, copied and unmapped an allocation that another
\* object, moved from, names too.
C14_Witness ==
  /\ LoadReturned
  /\ last.mapResult = VK_SUCCESS
  /\ Len(last.calls) = 3
  /\ last.calls[3].fn = "vmaUnmapMemory"
  /\ mapCount[last.before.allocation] = 0
  /\ \E o \in Objs : /\ o # last.obj
                      /\ objs[o].alive
                      /\ objs[o].allocation = last.before.allocation

\* C19 as stated: a loadData called on a moved-from Buffer, whose pair another
\* Buffer now owns, maps nothing and leaves the content of that pair as it was.
C19_MovedFromInert ==
  (/\ LoadReturned
   /\ ~isInitialized(last.before)
   /\ \E b \in Owners(last.before.allocation) : b # last.obj) =>
    /\ \A i \in DOMAIN last.calls : last.calls[i].fn # "vmaMapMemory"
    /\ mem[last.before.allocation] = last.memBefore

\* getSize() of the Buffer object buf.
SizeOf(buf) == getSize(SizeBits(buf.size))

\* C15 as stated: while a Buffer object exists, no loadData, recorded copy,
\* transfer, move construction or move assignment, to or from another object,
\* changes what its getSize() returns.
C15_SizeNeverChanges ==
  [][\A o \in Objs :
       (objs[o].alive /\ objs'[o].alive) => SizeOf(objs'[o]) = SizeOf(objs[o])]_vars

\* C15 amended: what getSize() of a Buffer object returns changes only in a move
\* assignment into this object from another one, after which it is what getSize()
\* of the source returned; uploads, transfers, recorded copies, move constructions
\* and being moved from leave it as it was.
C15_SizeChangesOnlyByAssignment ==
  [][\A o \in Objs :
       (objs[o].alive /\ objs'[o].alive) =>
         \/ SizeOf(objs'[o]) = SizeOf(objs[o])
         \/ /\ last'.op = "operator=(Buffer&&)"
            /\ last'.dst = o
            /\ last'.src # o
            /\ SizeOf(objs'[o]) = SizeOf(objs[last'.src])
            /\ SizeOf(objs'[last'.src]) = SizeOf(objs[last'.src])]_vars

\* C15 witness: a move assignment gave its destination the size of its source,
\* another size than the destination was constructed with.
C15_Witness ==
  /\ last.op = "operator=(Buffer&&)"
  /\ last.dst # last.src
  /\ SizeOf(last.dstBefore) # SizeOf(last.srcBefore)
  /\ SizeOf(objs[last.dst]) = SizeOf(last.srcBefore)
  /\ SizeOf(objs[last.src]) = SizeOf(last.srcBefore)

\* C16: cmdCopyDataFrom appends to the given command buffer one vkCmdCopyBuffer
\* command, from the source's buffer to the destination's, of one region with
\* source offset 0, destination offset 0 and the destination's size, and changes
\* nothing else: the state of this command buffer, the other command buffers, the
\* pool, the queue, the allocator and every Buffer object are as they were.
C16_RecordOnly ==
  last.op = "cmdCopyDataFrom" =>
    LET b == last.before
        c == last.transferBuffer
        d == b.objs[last.obj]
        s == b.objs[last.src]
    IN /\ cmdbuf[c].cmds =
            Append(b.cmdbuf[c].cmds,
                   [fn |-> "vkCmdCopyBuffer", src |-> s.vertexBuffer,
                    dst |-> d.vertexBuffer,
                    regions |-> <<[srcOffset |-> 0, dstOffset |-> 0, size |-> d.size]>>])
       /\ cmdbuf[c].state = b.cmdbuf[c].state
       /\ cmdbuf[c].level = b.cmdbuf[c].level
       /\ cmdbuf[c].flags = b.cmdbuf[c].flags
       /\ \A x \in CmdBufs \ {c} : cmdbuf[x] = b.cmdbuf[x]
       /\ pool = b.pool
       /\ pending = b.pending
       /\ objs = b.objs
       /\ live = b.live
       /\ mem = b.mem
       /\ mapCount = b.mapCount
       /\ destroys = b.destroys

\* C16 witness: a copy from a buffer of two bytes into a buffer of one byte was
\* recorded after another command.
C16_Witness ==
  /\ last.op = "cmdCopyDataFrom"
  /\ last.obj # last.src
  /\ objs[last.obj].size = 1
  /\ objs[last.src].size = 2
  /\ Len(last.before.cmdbuf[last.transferBuffer].cmds) = 1
  /\ Len(cmdbuf[last.transferBuffer].cmds) = 2

\* C18 as stated: after a successful construction with a device that is not null
\* and any 64-bit bufferSize, isInitialized() is true and getSize() returns
\* bufferSize, the length loadData copies and the size of the copy region
\* cmdCopyDataFrom records.
C18_GetSizeIsSizeBytes ==
  (sz.pc = "constructed" /\ sz.read) =>
    /\ sz.isInitialized
    /\ sz.getSize = sz.bufferSize
    /\ sz.loaded => sz.memcpyLen = sz.getSize
    /\ sz.recorded => sz.copyRegionSize = sz.getSize

====
